---- MODULE Spec2Model ----
(***************************************************************************)
(* Model of the ignore-pattern engine of repo_to_text_CJK.py:              *)
(*   RepoAnalyzer._get_ignore_list, RepoAnalyzer._should_ignore and        *)
(*   RepoAnalyzer._convert_pattern_to_regex, together with the part of     *)
(*   Python's re module (pattern parsing and matching) that the regular    *)
(*   expressions built by the converter exercise.                          *)
(*                                                                         *)
(* Text is a sequence of characters; a character is a one-character        *)
(* string, except for the two code points outside ASCII that the model     *)
(* uses for Unicode normalisation, which are written "U+0301", "U+00E9".   *)
(* In the raw lines of a file, "0xE9" stands for the byte E9 where it is   *)
(* not part of a UTF-8 sequence.                                           *)
(***************************************************************************)
EXTENDS Integers, Sequences, FiniteSets

(***************************************************************************)
(* Characters                                                              *)
(***************************************************************************)

\* The printable ASCII characters in code order, starting at code 32 (the
\* grave accent, code 96, is written "U+0060").
Ascii ==
  << " ", "!", "\"", "#", "$", "%", "&", "'", "(", ")", "*", "+", ",", "-",
     ".", "/", "0", "1", "2", "3", "4", "5", "6", "7", "8", "9", ":", ";",
     "<", "=", ">", "?", "@", "A", "B", "C", "D", "E", "F", "G", "H", "I",
     "J", "K", "L", "M", "N", "O", "P", "Q", "R", "S", "T", "U", "V", "W",
     "X", "Y", "Z", "[", "\\", "]", "^", "_", "U+0060", "a", "b", "c", "d", "e",
     "f", "g", "h", "i", "j", "k", "l", "m", "n", "o", "p", "q", "r", "s",
     "t", "u", "v", "w", "x", "y", "z", "{", "|", "}", "~" >>

AsciiSet == {Ascii[i] : i \in 1..Len(Ascii)}

\* Code points of the characters that are not printable ASCII.
OtherCodes ==
  [c \in {"\t", "\n", "\r", "\f", "U+0301", "U+00E9"} |->
     CASE c = "\t" -> 9
       [] c = "\n" -> 10
       [] c = "\f" -> 12
       [] c = "\r" -> 13
       [] c = "U+00E9" -> 233
       [] c = "U+0301" -> 769]

OrdTable ==
  [c \in AsciiSet \cup DOMAIN OtherCodes |->
     IF c \in DOMAIN OtherCodes
       THEN OtherCodes[c]
       ELSE 31 + (CHOOSE i \in 1..Len(Ascii) : Ascii[i] = c)]

\* ord(c)
Ord(c) == OrdTable[c]

ASCIILETTERS == {Ascii[i] : i \in (34..59) \cup (66..91)}
DIGITS == {Ascii[i] : i \in 17..26}
OCTDIGITS == {Ascii[i] : i \in 17..24}
\* str.strip() and \s: the whitespace characters.
WHITESPACE == {" ", "\t", "\n", "\r", "\f"}

(***************************************************************************)
(* String helpers (str.strip, str.startswith, str.endswith, str.replace)   *)
(***************************************************************************)

RECURSIVE LStrip(_)
LStrip(s) ==
  IF s # <<>> /\ Head(s) \in WHITESPACE THEN LStrip(Tail(s)) ELSE s

RECURSIVE RStrip(_)
RStrip(s) ==
  IF s # <<>> /\ s[Len(s)] \in WHITESPACE
    THEN RStrip(SubSeq(s, 1, Len(s) - 1))
    ELSE s

Strip(s) == RStrip(LStrip(s))

StartsWith(s, c) == s # <<>> /\ s[1] = c

EndsWith(s, c) == s # <<>> /\ s[Len(s)] = c

\* s.replace("\\", "/")
ReplaceBackslash(s) == [i \in 1..Len(s) |-> IF s[i] = "\\" THEN "/" ELSE s[i]]

\* unicodedata.normalize('NFC', s) on the model's characters: the only
\* decomposed pair is "e" followed by the combining acute accent U+0301,
\* which composes to U+00E9; every other character is already composed.
RECURSIVE NFC(_)
NFCJoin(head, rest) == head \o NFC(rest)

NFC(s) ==
  IF Len(s) < 2 THEN s
  ELSE IF s[1] = "e" /\ s[2] = "U+0301"
    THEN NFCJoin(<<"U+00E9">>, SubSeq(s, 3, Len(s)))
    ELSE NFCJoin(<<s[1]>>, Tail(s))

(***************************************************************************)
(* RepoAnalyzer._convert_pattern_to_regex                                  *)
(*                                                                         *)
(* Here and below an operator hands the value of a call to a second        *)
(* operator as an argument where the code would keep it in a local.        *)
(***************************************************************************)

\* The characters the converter escapes with a backslash.
SpecialRegexChars == {".", "+", "(", ")", "{", "}", "\\", "^", "$", "|"}

EscapeChar_NoEscape(c) == <<c>>

\* The final branch of the scan: one pattern character, escaped when it is
\* a special regex character.
EscapeChar(c) == IF c \in SpecialRegexChars THEN <<"\\", c>> ELSE <<c>>

\* The inner loop of the character-class branch: the first index j >= from
\* with pattern[j] = "]", or Len(pattern) + 1 when there is none.
RECURSIVE ClassEnd(_, _)
ClassEnd(pattern, j) ==
  IF j <= Len(pattern) /\ pattern[j] # "]" THEN ClassEnd(pattern, j + 1) ELSE j

ClassText_BareBracket(pattern, i, j) ==
  IF j <= Len(pattern)
    THEN [text |-> <<"[">> \o SubSeq(pattern, i + 1, j - 1) \o <<"]">>,
          next |-> j + 1]
    ELSE [text |-> <<"[">>, next |-> i + 1]

\* The character-class branch after its inner loop has stopped at j: the
\* text appended to the regex and the next value of i.
ClassText(pattern, i, j) ==
  IF j <= Len(pattern)
    THEN [text |-> <<"[">> \o SubSeq(pattern, i + 1, j - 1) \o <<"]">>,
          next |-> j + 1]
    ELSE [text |-> <<"\\", "[">>, next |-> i + 1]

\* One turn of the while loop at index i: the text appended to the regex and
\* the next value of i.
GlobItem(pattern, i) ==
  IF pattern[i] = "*"
    THEN IF i + 1 <= Len(pattern) /\ pattern[i + 1] = "*"
           THEN [text |-> <<".", "*">>, next |-> i + 2]
           ELSE [text |-> <<"[", "^", "/", "]", "*">>, next |-> i + 1]
  ELSE IF pattern[i] = "?"
    THEN [text |-> <<"[", "^", "/", "]">>, next |-> i + 1]
  ELSE IF pattern[i] = "["
    THEN ClassText(pattern, i, ClassEnd(pattern, i + 1))
  ELSE [text |-> EscapeChar(pattern[i]), next |-> i + 1]

\* The while loop over the pattern from index i, regex being the text built
\* so far.
RECURSIVE ConvertGlob(_, _, _)
ConvertGlobNext(pattern, regex, item) ==
  ConvertGlob(pattern, item.next, regex \o item.text)

ConvertGlob(pattern, i, regex) ==
  IF i > Len(pattern) THEN regex
  ELSE ConvertGlobNext(pattern, regex, GlobItem(pattern, i))

LeadingRegex_NeverAnchored(pattern) ==
  <<"^", "(", "?", ":", ".", "+", "/", ")", "?">>

\* The start of the regex: "^", followed by "(?:.+/)?" unless the pattern
\* begins with a slash.
LeadingRegex(pattern) ==
  IF StartsWith(pattern, "/")
    THEN <<"^">>
    ELSE <<"^", "(", "?", ":", ".", "+", "/", ")", "?">>

\* The end of the regex.
TrailingRegex(is_dir_only) ==
  IF is_dir_only
    THEN <<"(", "?", ":", "/", "|", "$", ")">>
    ELSE <<"(", "?", ":", "/", ".", "*", ")", "?", "$">>

\* The conversion once the trailing slash is off the pattern.
ConvertBody(pattern, is_dir_only) ==
  ConvertGlob(IF StartsWith(pattern, "/") THEN Tail(pattern) ELSE pattern,
              1, LeadingRegex(pattern))
    \o TrailingRegex(is_dir_only)

\* The conversion of the stripped pattern.
ConvertStripped(stripped) ==
  ConvertBody(IF EndsWith(stripped, "/")
                THEN SubSeq(stripped, 1, Len(stripped) - 1)
                ELSE stripped,
              EndsWith(stripped, "/"))

\* _convert_pattern_to_regex(pattern): the regex, as text.
convert_pattern_to_regex(pattern) ==
  IF pattern = <<>> THEN <<"^", "$">> ELSE ConvertStripped(Strip(pattern))

(***************************************************************************)
(* Python's re: parsing of a pattern (sre_parse)                           *)
(*                                                                         *)
(* A parse result is a record [err, v, next]: err tells that re.error is   *)
(* raised, v is the parsed value and next the index of the first character *)
(* not consumed.  Nodes are records with a field t:                        *)
(*   "lit" (c: code), "any", "bol", "eol", "in" (neg, items),              *)
(*   "grp" (alts: a sequence of sequences of nodes),                       *)
(*   "rep" (unbounded, body): zero or more, or zero or one, of body.       *)
(* A class item is [cat, lo, hi]: a category "d", "s", "w" (or negated     *)
(* "D", "S", "W"), or with cat = "" the code range lo..hi.                 *)
(***************************************************************************)

ParseError == [err |-> TRUE, v |-> <<>>, next |-> 0]

ParseOk(v, next) == [err |-> FALSE, v |-> v, next |-> next]

Literal(code) == [cat |-> "", lo |-> code, hi |-> code]

Category(c) == [cat |-> c, lo |-> 0, hi |-> 0]

CATEGORIES == {"d", "D", "s", "S", "w", "W"}

\* The letter escapes that stand for one control character.
ESCAPES ==
  [c \in {"a", "b", "f", "n", "r", "t", "v"} |->
     CASE c = "a" -> 7 [] c = "b" -> 8 [] c = "f" -> 12 [] c = "n" -> 10
       [] c = "r" -> 13 [] c = "t" -> 9 [] c = "v" -> 11]

\* _class_escape for the escape "\\" c at r[i].  Escapes that take further
\* characters (octal, \x, \u, \U, \N) are outside the model's patterns and
\* are reported as an error, as are the other letters and digits.
ClassEscape(c, i) ==
  IF c \in DOMAIN ESCAPES THEN ParseOk(Literal(ESCAPES[c]), i + 2)
  ELSE IF c \in CATEGORIES THEN ParseOk(Category(c), i + 2)
  ELSE IF c \in ASCIILETTERS \cup DIGITS THEN ParseError
  ELSE ParseOk(Literal(Ord(c)), i + 2)

\* One member of a character class starting at r[i]: a literal or an escape.
ClassCode(r, i) ==
  IF r[i] = "\\"
    THEN IF i + 1 > Len(r) THEN ParseError ELSE ClassEscape(r[i + 1], i)
    ELSE ParseOk(Literal(Ord(r[i])), i + 1)

\* A step of the loop over the members of a class: [err, done, items, next].
ClassStep(err, done, items, next) ==
  [err |-> err, done |-> done, items |-> items, next |-> next]

\* A range code1 "-" code2.
ClassRangeEnd(items, code1, code2) ==
  IF code2.err THEN ClassStep(TRUE, FALSE, {}, 0)
  ELSE IF code1.v.cat # "" \/ code2.v.cat # "" THEN ClassStep(TRUE, FALSE, {}, 0)
  ELSE IF code2.v.lo < code1.v.lo THEN ClassStep(TRUE, FALSE, {}, 0)
  ELSE ClassStep(FALSE, FALSE,
                 items \cup {[cat |-> "", lo |-> code1.v.lo, hi |-> code2.v.lo]},
                 code2.next)

\* The member code1 has been read; a "-" after it may make a range.
ClassMember(r, items, code1) ==
  IF code1.err THEN ClassStep(TRUE, FALSE, {}, 0)
  ELSE IF code1.next <= Len(r) /\ r[code1.next] = "-"
    THEN IF code1.next + 1 > Len(r) THEN ClassStep(TRUE, FALSE, {}, 0)
         ELSE IF r[code1.next + 1] = "]"
           THEN ClassStep(FALSE, TRUE, items \cup {code1.v, Literal(Ord("-"))},
                          code1.next + 2)
         ELSE ClassRangeEnd(items, code1, ClassCode(r, code1.next + 1))
    ELSE ClassStep(FALSE, FALSE, items \cup {code1.v}, code1.next)

\* The loop of sre_parse over the members of a character class, from r[i],
\* with the members collected so far.
RECURSIVE ParseClassItems(_, _, _)
ClassContinue(r, step) ==
  IF step.err THEN ParseError
  ELSE IF step.done THEN ParseOk(step.items, step.next)
  ELSE ParseClassItems(r, step.next, step.items)

ParseClassItems(r, i, items) ==
  IF i > Len(r) THEN ParseError
  ELSE IF r[i] = "]" /\ items # {} THEN ParseOk(items, i + 1)
  ELSE ClassContinue(r, ClassMember(r, items, ClassCode(r, i)))

ClassNode(negate, items) ==
  IF items.err THEN ParseError
  ELSE ParseOk([t |-> "in", neg |-> negate, items |-> items.v], items.next)

\* A character class, entered with r[i] = "[".
ParseClass(r, i) ==
  IF i + 1 <= Len(r) /\ r[i + 1] = "^"
    THEN ClassNode(TRUE, ParseClassItems(r, i + 2, {}))
    ELSE ClassNode(FALSE, ParseClassItems(r, i + 1, {}))

REPEAT_CHARS == {"*", "+", "?"}

RECURSIVE ParseAlt(_, _, _)
RECURSIVE ParseSeq(_, _, _)

\* The end of a group whose alternatives g have been parsed.
GroupNode(r, g) ==
  IF g.err \/ g.next > Len(r) \/ r[g.next] # ")" THEN ParseError
  ELSE ParseOk([t |-> "grp", alts |-> g.v], g.next + 1)

\* One item of a sequence, without its repetition.
ParseAtom(r, i) ==
  IF r[i] = "^" THEN ParseOk([t |-> "bol"], i + 1)
  ELSE IF r[i] = "$" THEN ParseOk([t |-> "eol"], i + 1)
  ELSE IF r[i] = "." THEN ParseOk([t |-> "any"], i + 1)
  ELSE IF r[i] = "["  THEN ParseClass(r, i)
  ELSE IF r[i] = "\\"
    THEN \* the converter writes a backslash only before punctuation
         IF i + 1 > Len(r) \/ r[i + 1] \in ASCIILETTERS \cup DIGITS
           THEN ParseError
           ELSE ParseOk([t |-> "lit", c |-> Ord(r[i + 1])], i + 2)
  ELSE IF r[i] = "("
    THEN \* the converter writes only non-capturing groups
         IF i + 2 <= Len(r) /\ r[i + 1] = "?" /\ r[i + 2] = ":"
           THEN GroupNode(r, ParseAlt(r, i + 3, <<>>))
           ELSE ParseError
  ELSE IF r[i] \in REPEAT_CHARS THEN ParseError   \* nothing to repeat
  ELSE ParseOk([t |-> "lit", c |-> Ord(r[i])], i + 1)

\* The item a with the repetition that follows it, if any: "x+" is "x"
\* followed by zero or more "x".
Repeat(r, a) ==
  IF a.err THEN ParseError
  ELSE IF a.next <= Len(r) /\ r[a.next] \in REPEAT_CHARS
    THEN IF a.v.t \in {"bol", "eol"}
              \/ (a.next + 1 <= Len(r) /\ r[a.next + 1] \in REPEAT_CHARS)
           THEN \* nothing to repeat; a repetition followed by another
                \* repetition character is never written by the converter
                ParseError
           ELSE IF r[a.next] = "+"
             THEN ParseOk([t |-> "grp",
                           alts |-> << <<a.v, [t |-> "rep", unbounded |-> TRUE,
                                             body |-> a.v]>> >>],
                          a.next + 1)
             ELSE ParseOk([t |-> "rep", unbounded |-> r[a.next] = "*", body |-> a.v],
                          a.next + 1)
    ELSE a

SeqContinue(r, nodes, item) ==
  IF item.err THEN ParseError
  ELSE ParseSeq(r, item.next, Append(nodes, item.v))

\* A sequence of items up to "|", ")" or the end of the pattern.
ParseSeq(r, i, nodes) ==
  IF i > Len(r) \/ r[i] \in {"|", ")"} THEN ParseOk(nodes, i)
  ELSE SeqContinue(r, nodes, Repeat(r, ParseAtom(r, i)))

AltContinue(r, alts, s) ==
  IF s.err THEN ParseError
  ELSE IF s.next <= Len(r) /\ r[s.next] = "|"
    THEN ParseAlt(r, s.next + 1, Append(alts, s.v))
    ELSE ParseOk(Append(alts, s.v), s.next)

\* The alternatives of a pattern or of a group, separated by "|".
ParseAlt(r, i, alts) == AltContinue(r, alts, ParseSeq(r, i, <<>>))

Compiled(r, p) ==
  IF p.err \/ p.next <= Len(r) THEN ParseError   \* unbalanced parenthesis
  ELSE ParseOk([t |-> "grp", alts |-> p.v], p.next)

\* re.compile(r): the parsed pattern; err when re.error is raised.
re_compile(r) == Compiled(r, ParseAlt(r, 1, <<>>))

(***************************************************************************)
(* Python's re: matching                                                   *)
(*                                                                         *)
(* Positions are indexes 1..Len(s)+1 of the next character to read.  The   *)
(* patterns have no back-references, so a match exists iff some way of     *)
(* matching the items in sequence reaches the end of the pattern; the set  *)
(* of positions reachable after each item is computed.                     *)
(***************************************************************************)

InCategory(cat, ch) ==
  IF cat \in {"d", "D"} THEN (ch \in DIGITS) = (cat = "d")
  ELSE IF cat \in {"s", "S"} THEN (ch \in WHITESPACE) = (cat = "s")
  ELSE (ch \in ASCIILETTERS \cup DIGITS \cup {"_"}) = (cat = "w")

InClass(node, ch) ==
  node.neg # (\E it \in node.items :
                IF it.cat = "" THEN Ord(ch) \in it.lo..it.hi
                ELSE InCategory(it.cat, ch))

RECURSIVE EndsNode(_, _, _)

\* The positions reachable from a position of P by the items nodes[k..].
RECURSIVE EndsSeq(_, _, _, _)
EndsSeq(nodes, k, s, P) ==
  IF k > Len(nodes) \/ P = {} THEN P
  ELSE EndsSeq(nodes, k + 1, s, EndsNode(nodes[k], s, P))

\* Repetition of n.body from the positions P, once being the positions one
\* more match of the body reaches.
RECURSIVE EndsRepeat(_, _, _)
RepeatStep(n, s, P, once) ==
  IF ~n.unbounded \/ once \subseteq P THEN P \cup once
  ELSE EndsRepeat(n, s, P \cup once)

EndsRepeat(n, s, P) == RepeatStep(n, s, P, EndsNode(n.body, s, P))

\* The positions reachable from a position of P by matching node n in s.
EndsNode(n, s, P) ==
  CASE n.t = "lit" -> {q + 1 : q \in {p \in P : p <= Len(s) /\ Ord(s[p]) = n.c}}
    [] n.t = "any" -> {q + 1 : q \in {p \in P : p <= Len(s) /\ s[p] # "\n"}}
    [] n.t = "in"  -> {q + 1 : q \in {p \in P : p <= Len(s) /\ InClass(n, s[p])}}
    [] n.t = "bol" -> {p \in P : p = 1}
    [] n.t = "eol" -> {p \in P : p = Len(s) + 1 \/ (p = Len(s) /\ s[p] = "\n")}
    [] n.t = "grp" -> UNION {EndsSeq(n.alts[a], 1, s, P) : a \in 1..Len(n.alts)}
    [] n.t = "rep" -> EndsRepeat(n, s, P)

\* Whether the compiled pattern p matches at the start of s.
Matches(p, s) == EndsNode(p, s, {1}) # {}

MatchResult(p, s) ==
  IF p.err THEN "error" ELSE IF Matches(p.v, s) THEN "match" ELSE "nomatch"

\* re.match(r, s): "error" when compiling r raises re.error, else whether
\* the pattern matches at the start of s.
re_match(r, s) == MatchResult(re_compile(r), s)

(***************************************************************************)
(* RepoAnalyzer._should_ignore                                             *)
(***************************************************************************)

\* The normalisation applied to the path and to every pattern: NFC, and on
\* Windows the backslashes rewritten to slashes.
Normalize(s, platform) ==
  IF platform = "win32" THEN ReplaceBackslash(NFC(s)) ELSE NFC(s)

\* paths_to_check: the path, and the path with a trailing slash when
\* os.path.isdir says it is a directory.
PathsToCheck(normalized_path, isdir) ==
  IF isdir
    THEN {normalized_path, normalized_path \o <<"/">>}
    ELSE {normalized_path}

\* Whether the scan skips the (normalised) pattern: empty or a comment.
Skipped(pattern) == pattern = <<>> \/ StartsWith(pattern, "#")

\* is_negated_pattern
IsNegated(pattern) == StartsWith(pattern, "!")

\* The pattern handed to the converter: without its leading "!".
PatternBody(pattern) == IF IsNegated(pattern) THEN Tail(pattern) ELSE pattern

MatchedAny(compiled, paths_to_check) ==
  IF compiled.err THEN "error"
  ELSE IF \E p \in paths_to_check : Matches(compiled.v, p) THEN "match"
  ELSE "nomatch"

\* matched = any(re.match(regex_pattern, path) for path in paths_to_check):
\* "error" when re.match raises re.error.
Matched(regex_pattern, paths_to_check) ==
  MatchedAny(re_compile(regex_pattern), paths_to_check)

\* One turn of the for loop: whether re.error escapes, whether the function
\* returns True at once, and the negated flag after the turn.
LoopTurn(raise, return, negated) ==
  [raise |-> raise, return |-> return, negated |-> negated]

OnMatch_FlagIgnored(is_negated_pattern, negated) ==
  IF is_negated_pattern THEN LoopTurn(FALSE, FALSE, TRUE)
  ELSE LoopTurn(FALSE, TRUE, negated)

\* The branch "if matched": a negated pattern sets the flag, another pattern
\* returns True unless the flag is set.
OnMatch(is_negated_pattern, negated) ==
  IF is_negated_pattern THEN LoopTurn(FALSE, FALSE, TRUE)
  ELSE LoopTurn(FALSE, ~negated, negated)

\* The turn of the loop for a pattern that is not skipped, m being the
\* outcome of matching it.
OnMatched(is_negated_pattern, negated, m) ==
  IF m = "error" THEN LoopTurn(TRUE, FALSE, negated)
  ELSE IF m = "match" THEN OnMatch(is_negated_pattern, negated)
  ELSE LoopTurn(FALSE, FALSE, negated)

\* The turn of the loop for the (normalised) pattern.
OnPattern(pattern, negated, paths_to_check) ==
  IF Skipped(pattern) THEN LoopTurn(FALSE, FALSE, negated)
  ELSE OnMatched(IsNegated(pattern), negated,
                 Matched(convert_pattern_to_regex(PatternBody(pattern)),
                         paths_to_check))

\* The for loop over self.ignore_list from index k with the negated flag:
\* "True", "False", or "re.error" when the exception escapes.
RECURSIVE Scan(_, _, _, _, _)
ScanNext(list, k, turn, paths_to_check, platform) ==
  IF turn.raise THEN "re.error"
  ELSE IF turn.return THEN "True"
  ELSE Scan(list, k + 1, turn.negated, paths_to_check, platform)

Scan(list, k, negated, paths_to_check, platform) ==
  IF k > Len(list) THEN "False"
  ELSE ScanNext(list, k,
                OnPattern(Normalize(list[k], platform), negated, paths_to_check),
                paths_to_check, platform)

\* _should_ignore(file_path) with the answer of os.path.isdir.
should_ignore(list, path, isdir, platform) ==
  Scan(list, 1, FALSE, PathsToCheck(Normalize(path, platform), isdir), platform)

(***************************************************************************)
(* RepoAnalyzer._get_ignore_list                                           *)
(***************************************************************************)

default_ignores ==
  << <<"*", "*", "/", ".", "g", "i", "t", "/", "*", "*">>,
     <<"*", "*", "/", ".", "s", "v", "n", "/", "*", "*">>,
     <<"*", "*", "/", ".", "h", "g", "/", "*", "*">>,
     <<"*", "*", "/", "n", "o", "d", "e", "_", "m", "o", "d", "u", "l", "e", "s", "/", "*", "*">>,
     <<"*", "*", "/", "_", "_", "p", "y", "c", "a", "c", "h", "e", "_", "_", "/", "*", "*">>,
     <<"*", "*", "/", ".", "v", "s", "/", "*", "*">>,
     <<"*", "*", "/", ".", "i", "d", "e", "a", "/", "*", "*">>,
     <<"*", "*", "/", "v", "e", "n", "v", "/", "*", "*">>,
     <<"*", "*", "/", ".", "e", "n", "v", "/", "*", "*">>,
     <<"*", "*", "/", "d", "i", "s", "t", "/", "*", "*">>,
     <<"*", "*", "/", "b", "u", "i", "l", "d", "/", "*", "*">>,
     <<"*", "*", "/", "c", "o", "v", "e", "r", "a", "g", "e", "/", "*", "*">> >>

Contains(list, x) == \E i \in 1..Len(list) : list[i] = x

\* Whether the raw line is valid UTF-8.
IsUTF8(raw) == \A i \in 1..Len(raw) : raw[i] # "0xE9"

\* The index of the first line that is not valid UTF-8, or Len(lines) + 1.
RECURSIVE FirstUndecodable(_, _)
FirstUndecodable(lines, k) ==
  IF k <= Len(lines) /\ IsUTF8(lines[k]) THEN FirstUndecodable(lines, k + 1) ELSE k

\* The raw line as decoded in the preferred encoding, when that is a
\* single-byte encoding in which the byte E9 is U+00E9.
DecodePreferred(raw) ==
  [i \in 1..Len(raw) |-> IF raw[i] = "0xE9" THEN "U+00E9" ELSE raw[i]]

\* The body of the UTF-8 reading loop for one raw line: the list with the
\* line's pattern appended, or unchanged for a blank or comment line.
ReadLine(list, raw, platform) ==
  LET line == NFC(Strip(raw))
  IN  IF line = <<>> \/ StartsWith(line, "#") THEN list
      ELSE Append(list, IF platform = "win32" THEN ReplaceBackslash(line) ELSE line)

\* The UTF-8 reading loop over the lines of the file from index k.
RECURSIVE ReadLines(_, _, _, _)
ReadLines(list, lines, k, platform) ==
  IF k > Len(lines) THEN list
  ELSE ReadLines(ReadLine(list, lines[k], platform), lines, k + 1, platform)

\* The body of the fallback reading loop for one raw line.
ReadLineFallback(list, raw, platform) ==
  LET line == Strip(DecodePreferred(raw))
  IN  IF line # <<>> /\ ~StartsWith(line, "#")
        THEN Append(list, IF platform = "win32"
                            THEN ReplaceBackslash(NFC(line))
                            ELSE NFC(line))
        ELSE list

\* The fallback reading loop over the lines of the file from index k.
RECURSIVE ReadLinesFallback(_, _, _, _)
ReadLinesFallback(list, lines, k, platform) ==
  IF k > Len(lines) THEN list
  ELSE ReadLinesFallback(ReadLineFallback(list, lines[k], platform),
                         lines, k + 1, platform)

\* The loop that appends the default patterns missing from the list.
RECURSIVE AddDefaults(_, _)
AddDefaults(list, k) ==
  IF k > Len(default_ignores) THEN list
  ELSE AddDefaults(IF Contains(list, default_ignores[k])
                     THEN list
                     ELSE Append(list, default_ignores[k]), k + 1)

(***************************************************************************)
(* Bounds and inputs                                                       *)
(***************************************************************************)

\* The largest number of lines of an ignore file.
MaxLines == 2

\* The longest enumerated pattern and the longest enumerated path.
MaxPatLen == 2
MaxPathLen == 4

\* The raw lines an ignore file is made of, as the file iterator yields them.
UserLines ==
  { <<"*", ".", "l", "o", "g", "\n">>,
    <<"!", "i", "m", "p", "o", "r", "t", "a", "n", "t", ".", "l", "o", "g", "\n">>,
    <<"#", " ", "b", "u", "i", "l", "d", " ", "o", "u", "t", "p", "u", "t", "\n">>,
    <<" ", "\n">>,
    <<" ", " ", "d", "i", "s", "t", "/", " ", "\n">>,
    <<"!", "*", "*", "/", "d", "i", "s", "t", "/", "*", "*", "\n">>,
    <<"*", "*", "/", "b", "u", "i", "l", "d", "/", "*", "*", "\n">>,
    <<"[", "]", "\n">>,
    <<"e", "U+0301", "\n">>,
    <<"a", "\\", "b", "\n">>,
    <<"0xE9", "\n">> }

SeqsUpTo(S, n) == UNION {[1..k -> S] : k \in 0..n}

IgnoreFiles ==
  {[kind |-> "file", lines |-> ls] : ls \in SeqsUpTo(UserLines, MaxLines)}
  \cup {[kind |-> k, lines |-> <<>>] : k \in {"missing", "oserror"}}

\* The candidate paths asked about.
RepoPaths ==
  { <<"d", "e", "b", "u", "g", ".", "l", "o", "g">>,
    <<"i", "m", "p", "o", "r", "t", "a", "n", "t", ".", "l", "o", "g">>,
    <<".", "g", "i", "t", "/", "c", "o", "n", "f", "i", "g">>,
    <<"n", "o", "d", "e", "_", "m", "o", "d", "u", "l", "e", "s", "/", "p", "k", "g", "/", "i", "n", "d", "e", "x", ".", "j", "s">>,
    <<"a", "/", ".", "g", "i", "t", "/", "c", "o", "n", "f", "i", "g">>,
    <<"d", "i", "s", "t">>,
    <<"d", "i", "s", "t", "/", "x">>,
    <<"a", "/", "d", "i", "s", "t">>,
    <<"U+00E9">>,
    <<"a", "\\", "b">> }

\* The candidate paths that are directories in some of the trees.
RepoDirs == { <<"d", "i", "s", "t">>, <<"a", "/", "d", "i", "s", "t">> }

\* The patterns and paths of the converter's specification: every text over
\* a small alphabet up to a length, and the examples of the documentation.
PatChars == {"a", ".", "/", "[", "]"}

PathChars == {"a", ".", "/", "["}

ExamplePatterns ==
  { <<"b", "u", "i", "l", "d">>, <<"/", "R", "E", "A", "D", "M", "E", ".", "m", "d">>, <<"R", "E", "A", "D", "M", "E", ".", "m", "d">>, <<"*", "*", "/", "t", "e", "s", "t", "/", "*", "*">>, <<"*", "*", "/", "a", "/", "*", "*">>,
    <<"w", "e", "i", "r", "d", "[", "a", "b", "c">>,
    <<"*", ".", "l", "o", "g">>, <<"a", "?">>, <<"[", "z", "-", "a", "]">>, <<"[", "\\", "]">>, <<"[", "]", "a", "]">>, <<"[", "a", "-", "b", "]", "*">>,
    <<"+">>, <<"(">>, <<")">>, <<"{">>, <<"}">>, <<"\\">>, <<"^">>, <<"$">>, <<"|">>,
    <<"a", "+">>, <<"a", "|", "b">>, <<"$", "a">> }

ExamplePaths ==
  { <<"b", "u", "i", "l", "d">>, <<"b", "u", "i", "l", "d", "/", "o", "u", "t", ".", "o">>, <<"s", "r", "c", "/", "b", "u", "i", "l", "d">>, <<"b", "u", "i", "l", "d", "e", "r">>,
    <<"R", "E", "A", "D", "M", "E", ".", "m", "d">>, <<"d", "o", "c", "s", "/", "R", "E", "A", "D", "M", "E", ".", "m", "d">>, <<"a", "/", "b", "/", "R", "E", "A", "D", "M", "E", ".", "m", "d">>,
    <<"a", "/", "t", "e", "s", "t", "/", "b", ".", "p", "y">>, <<"t", "e", "s", "t", "/", "b", ".", "p", "y">>, <<"a", "/", "b", "/", "t", "e", "s", "t", "/", "c", "/", "d", ".", "p", "y">>,
    <<"w", "e", "i", "r", "d", "[", "a", "b", "c">>, <<"x", "/", "w", "e", "i", "r", "d", "[", "a", "b", "c", "/", "y">>, <<"w", "e", "i", "r", "d", "a">>, <<"w", "e", "i", "r", "d", "b">>, <<"w", "e", "i", "r", "d">>,
    <<"d", "e", "b", "u", "g", ".", "l", "o", "g">>, <<"a", "b">>, <<"b">>, <<"a", "a">>, <<"a", "|", "b">>, <<"a", "+">>, <<"$", "a">>,
    <<"+">>, <<"(">>, <<")">>, <<"{">>, <<"}">>, <<"\\">>, <<"^">>, <<"$">>, <<"|">> }

CompilePatterns ==
  (SeqsUpTo(PatChars, MaxPatLen) \ {<<>>}) \cup ExamplePatterns

\* Candidate paths are relative: not empty and without a leading slash.
CompilePaths ==
  {p \in SeqsUpTo(PathChars, MaxPathLen) : p # <<>> /\ p[1] # "/"}
  \cup ExamplePaths

(***************************************************************************)
(* State                                                                   *)
(***************************************************************************)

VARIABLES
  platform,       \* sys.platform
  ignore_file,    \* the ignore file on disk: whether it is there and
                  \* opens, and its raw lines
  pc,             \* "new": constructing; "ready": self.ignore_list is set;
                  \* "called": _should_ignore has returned; "failed": an
                  \* exception escaped
  ignore_list,    \* self.ignore_list
  file_path,      \* the argument of the last _should_ignore call
  is_dir,         \* the answer of os.path.isdir in that call
  result,         \* its outcome: "True", "False" or "re.error"
  pattern,        \* the argument of _convert_pattern_to_regex
  path,           \* the string matched against
  regex_pattern,  \* the regex the converter returned
  matched,        \* the outcome of re.match: "match", "nomatch" or "error"
  step            \* the position in convert-then-match

analyzerVars == <<platform, ignore_file, pc, ignore_list, file_path, is_dir, result>>

converterVars == <<pattern, path, regex_pattern, matched, step>>

vars == <<platform, ignore_file, pc, ignore_list, file_path, is_dir, result,
          pattern, path, regex_pattern, matched, step>>

ConverterIdle ==
  /\ pattern = <<>>
  /\ path = <<>>
  /\ regex_pattern = <<>>
  /\ matched = "none"
  /\ step = "off"

AnalyzerIdle ==
  /\ platform = "linux"
  /\ ignore_file = [kind |-> "missing", lines |-> <<>>]
  /\ pc = "off"
  /\ ignore_list = <<>>
  /\ file_path = <<>>
  /\ is_dir = FALSE
  /\ result = "none"

(***************************************************************************)
(* The analyzer: construction, then calls of _should_ignore                *)
(***************************************************************************)

Init ==
  /\ platform \in {"linux", "win32"}
  /\ ignore_file \in IgnoreFiles
  /\ pc = "new"
  /\ ignore_list = <<>>
  /\ file_path = <<>>
  /\ is_dir = FALSE
  /\ result = "none"
  /\ ConverterIdle

\* __init__ calling _get_ignore_list on a file that opens and is UTF-8, or
\* that does not exist (FileNotFoundError is caught).
GetIgnoreList ==
  /\ pc = "new"
  /\ \/ ignore_file.kind = "missing"
     \/ /\ ignore_file.kind = "file"
        /\ FirstUndecodable(ignore_file.lines, 1) > Len(ignore_file.lines)
  /\ ignore_list' = AddDefaults(ReadLines(<<>>, ignore_file.lines, 1, platform), 1)
  /\ pc' = "ready"
  /\ UNCHANGED <<platform, ignore_file, file_path, is_dir, result>>
  /\ UNCHANGED converterVars

\* _get_ignore_list on a file whose opening raises an OSError other than
\* FileNotFoundError (PermissionError, IsADirectoryError): no handler.
GetIgnoreListOSError ==
  /\ pc = "new"
  /\ ignore_file.kind = "oserror"
  /\ pc' = "failed"
  /\ UNCHANGED <<platform, ignore_file, ignore_list, file_path, is_dir, result>>
  /\ UNCHANGED converterVars

\* _get_ignore_list on a file that is not UTF-8.  The file is decoded a
\* buffer at a time, so the first loop appends some of the lines before the
\* offending one (read of them) and raises UnicodeDecodeError; the handler
\* reads the whole file again in the preferred encoding, which either
\* decodes it or raises in its turn.
GetIgnoreListFallback ==
  /\ pc = "new"
  /\ ignore_file.kind = "file"
  /\ FirstUndecodable(ignore_file.lines, 1) <= Len(ignore_file.lines)
  /\ \E read \in 0..(FirstUndecodable(ignore_file.lines, 1) - 1), decodes \in BOOLEAN :
       LET partial == ReadLines(<<>>, SubSeq(ignore_file.lines, 1, read), 1, platform)
       IN  IF decodes
             THEN /\ ignore_list' =
                       AddDefaults(ReadLinesFallback(partial, ignore_file.lines,
                                                     1, platform), 1)
                  /\ pc' = "ready"
             ELSE /\ ignore_list' = ignore_list
                  /\ pc' = "failed"
  /\ UNCHANGED <<platform, ignore_file, file_path, is_dir, result>>
  /\ UNCHANGED converterVars

\* A call of _should_ignore(p), the file system saying whether p is a
\* directory; re.error escapes to the caller.
ShouldIgnore ==
  /\ pc = "ready"
  /\ \E p \in RepoPaths : \E d \in IF p \in RepoDirs THEN BOOLEAN ELSE {FALSE} :
       /\ file_path' = p
       /\ is_dir' = d
       /\ result' = should_ignore(ignore_list, p, d, platform)
  /\ pc' = IF result' = "re.error" THEN "failed" ELSE "called"
  /\ UNCHANGED <<platform, ignore_file, ignore_list>>
  /\ UNCHANGED converterVars

\* The caller's loop goes on to the next path; the locals of the call are gone.
NextFile ==
  /\ pc = "called"
  /\ pc' = "ready"
  /\ file_path' = <<>>
  /\ is_dir' = FALSE
  /\ result' = "none"
  /\ UNCHANGED <<platform, ignore_file, ignore_list>>
  /\ UNCHANGED converterVars

Next ==
  \/ GetIgnoreList
  \/ GetIgnoreListOSError
  \/ GetIgnoreListFallback
  \/ ShouldIgnore
  \/ NextFile

Spec == Init /\ [][Next]_vars

(***************************************************************************)
(* The converter on its own: one pattern converted, then matched           *)
(***************************************************************************)

InitCompile ==
  /\ pattern \in CompilePatterns
  /\ path \in CompilePaths
  /\ regex_pattern = <<>>
  /\ matched = "none"
  /\ step = "input"
  /\ AnalyzerIdle

\* regex_pattern = self._convert_pattern_to_regex(pattern)
ConvertPattern ==
  /\ step = "input"
  /\ regex_pattern' = convert_pattern_to_regex(pattern)
  /\ step' = "converted"
  /\ UNCHANGED <<pattern, path, matched>>
  /\ UNCHANGED analyzerVars

\* re.match(regex_pattern, path)
MatchPath ==
  /\ step = "converted"
  /\ matched' = re_match(regex_pattern, path)
  /\ step' = "matched"
  /\ UNCHANGED <<pattern, path, regex_pattern>>
  /\ UNCHANGED analyzerVars

NextCompile ==
  \/ ConvertPattern
  \/ MatchPath

SpecCompile == InitCompile /\ [][NextCompile]_vars

TypeOK ==
  /\ pc \in {"off", "new", "ready", "called", "failed"}
  /\ result \in {"none", "True", "False", "re.error"}
  /\ matched \in {"none", "match", "nomatch", "error"}
  /\ step \in {"off", "input", "converted", "matched"}
  /\ is_dir \in BOOLEAN

(***************************************************************************)
(* Properties                                                              *)
(***************************************************************************)

\* Whether text stands in p at index s and ends at the end of p or right
\* before a slash.
OccursAt(text, p, s) ==
  /\ s + Len(text) - 1 <= Len(p)
  /\ SubSeq(p, s, s + Len(text) - 1) = text
  /\ (s + Len(text) - 1 = Len(p) \/ p[s + Len(text)] = "/")

\* Whether index s of p is the beginning of a segment.
AtSegmentStart(p, s) == s = 1 \/ p[s - 1] = "/"

\* Whether text occurs in p from the beginning of a segment to the end of p
\* or of a segment.
OccursAsSegments(text, p) ==
  \E s \in 1..Len(p) : AtSegmentStart(p, s) /\ OccursAt(text, p, s)

\* Whether p has the directory segment dir: a segment followed by a slash.
HasDirSegment(p, dir) ==
  \E s \in 1..Len(p) :
    /\ AtSegmentStart(p, s)
    /\ s + Len(dir) <= Len(p)
    /\ SubSeq(p, s, s + Len(dir)) = dir \o <<"/">>

\* A pattern without glob characters, leading "/", "!" or "#", trailing "/"
\* or surrounding whitespace.
IsLiteralPattern(pat) ==
  /\ pat # <<>>
  /\ \A i \in 1..Len(pat) : pat[i] \notin {"*", "?", "["}
  /\ pat[1] \notin {"/", "!", "#"}
  /\ pat[Len(pat)] # "/"
  /\ Strip(pat) = pat

\* A pattern in which some "[" occurs, no "]" follows any "[", and every
\* other character is as in a literal pattern.
IsUnterminatedClassPattern(pat) ==
  /\ pat # <<>>
  /\ \E i \in 1..Len(pat) : pat[i] = "["
  /\ \A i, j \in 1..Len(pat) : (pat[i] = "[" /\ i < j) => pat[j] # "]"
  /\ \A i \in 1..Len(pat) : pat[i] \notin {"*", "?"}
  /\ pat[1] \notin {"/", "!", "#"}
  /\ pat[Len(pat)] # "/"
  /\ Strip(pat) = pat

\* The indexes of the patterns of self.ignore_list that match the path of
\* the last call.
MatchingIndexes ==
  {k \in 1..Len(ignore_list) :
     LET pat == Normalize(ignore_list[k], platform)
     IN  /\ ~Skipped(pat)
         /\ Matched(convert_pattern_to_regex(PatternBody(pat)),
                    PathsToCheck(Normalize(file_path, platform), is_dir)) = "match"}

LastIndex(S) == CHOOSE k \in S : \A j \in S : j <= k

\* The directories the default patterns name: X of "**/X/**".
DefaultDirs ==
  {SubSeq(default_ignores[k], 4, Len(default_ignores[k]) - 3) :
     k \in 1..Len(default_ignores)}

IsDefault(pat) == Contains(default_ignores, pat)

\* C1: last match wins: a call of _should_ignore returns True iff at least
\* one pattern of the list matches the path and the last matching pattern in
\* list order is not negated.
C1_LastMatchWins ==
  result \in {"True", "False"} =>
    (result = "True" <=>
       /\ MatchingIndexes # {}
       /\ ~IsNegated(Normalize(ignore_list[LastIndex(MatchingIndexes)], platform)))

\* C2: with no user pattern (the list holds the defaults only), every path
\* under a default-listed directory at any depth, the root included, such as
\* ".git/config" and "node_modules/pkg/index.js", is ignored.
C2_DefaultsIgnoreAtAnyDepth ==
  ( /\ result # "none"
    /\ ignore_list = default_ignores
    /\ \E d \in DefaultDirs : HasDirSegment(Normalize(file_path, platform), d) )
  => result = "True"

\* C3: "**" spans zero or more segments: the regex of a pattern "**/X/**"
\* matches every path that has X as one of its directory segments, the first
\* included ("**/test/**" matches "test/b.py").
C3_DoubleStarSpansZeroSegments ==
  ( /\ step = "matched"
    /\ Len(pattern) > 6
    /\ SubSeq(pattern, 1, 3) = <<"*", "*", "/">>
    /\ SubSeq(pattern, Len(pattern) - 2, Len(pattern)) = <<"/", "*", "*">>
    /\ IsLiteralPattern(SubSeq(pattern, 4, Len(pattern) - 3))
    /\ HasDirSegment(path, SubSeq(pattern, 4, Len(pattern) - 3)) )
  => matched = "match"

\* C4: directory-only patterns match only directories: with the single user
\* pattern "dist/", "dist" is ignored when it is a directory, every path
\* under "dist/" is ignored, and "dist" is not ignored when it is a file.
C4_DirectoryOnlyPattern ==
  ( /\ result # "none"
    /\ ignore_list = << <<"d", "i", "s", "t", "/">> >> \o default_ignores )
  => /\ (file_path = <<"d", "i", "s", "t">> /\ is_dir) => result = "True"
     /\ (Len(file_path) > 5 /\ SubSeq(file_path, 1, 5) = <<"d", "i", "s", "t", "/">>) => result = "True"
     /\ (file_path = <<"d", "i", "s", "t">> /\ ~is_dir) => result = "False"

\* C5: literal patterns match whole segments only: the regex of a pattern
\* without glob characters matches a relative path iff the pattern text
\* occurs in the path from the beginning of a segment to the end of the path
\* or of a segment; regex metacharacters stand for themselves.
C5_LiteralMatchesWholeSegments ==
  (step = "matched" /\ IsLiteralPattern(pattern) /\ path[1] # "/")
  => (matched = "match" <=> OccursAsSegments(pattern, path))

C5_Witness ==
  /\ step = "matched"
  /\ pattern = <<"b", "u", "i", "l", "d">>
  /\ path = <<"s", "r", "c", "/", "b", "u", "i", "l", "d">>
  /\ matched = "match"

\* C6: anchoring: the regex of a pattern "/" followed by literal text
\* matches a relative path iff the text stands at the very beginning of the
\* path (so "/README.md" matches "README.md" and not "docs/README.md"),
\* while the text without the leading "/" also matches after any leading
\* directory segments.
C6_AnchoredMatchesFromRootOnly ==
  (step = "matched" /\ path[1] # "/")
  => /\ (pattern # <<>> /\ pattern[1] = "/" /\ IsLiteralPattern(Tail(pattern)))
          => (matched = "match" <=> OccursAt(Tail(pattern), path, 1))
     /\ (IsLiteralPattern(pattern)
           /\ \E s \in 2..Len(path) :
                AtSegmentStart(path, s) /\ OccursAt(pattern, path, s))
          => matched = "match"

C6_Witness ==
  /\ step = "matched"
  /\ pattern = <<"/", "R", "E", "A", "D", "M", "E", ".", "m", "d">>
  /\ path = <<"d", "o", "c", "s", "/", "R", "E", "A", "D", "M", "E", ".", "m", "d">>
  /\ matched = "nomatch"

\* C7: no fatal error: for every pattern that reaches the list and every
\* path, a call of _should_ignore ends with a boolean; re.error is never
\* raised.
C7_ShouldIgnoreNeverRaises == result # "re.error"

\* C8: an unterminated character class degrades to a literal: for a pattern
\* with a "[" that no "]" follows, conversion and matching raise nothing and
\* the regex matches exactly the paths in which the pattern text, "["
\* included, occurs as whole segments ("weird[abc" does not match "weirda").
C8_UnterminatedClassIsLiteral ==
  (step = "matched" /\ IsUnterminatedClassPattern(pattern) /\ path[1] # "/")
  => /\ matched # "error"
     /\ matched = "match" <=> OccursAsSegments(pattern, path)

C8_Witness ==
  /\ step = "matched"
  /\ pattern = <<"w", "e", "i", "r", "d", "[", "a", "b", "c">>
  /\ path = <<"x", "/", "w", "e", "i", "r", "d", "[", "a", "b", "c", "/", "y">>
  /\ matched = "match"

\* C9: ignore-source failures degrade to the defaults: whatever opening and
\* reading the ignore file does, _get_ignore_list returns a list holding
\* every default pattern and no exception escapes.
C9_LoadDegradesToDefaults ==
  /\ pc = "failed" => result = "re.error"
  /\ pc \in {"ready", "called"} =>
       \A k \in 1..Len(default_ignores) : Contains(ignore_list, default_ignores[k])

\* C10: defaults come first: in the list _get_ignore_list returns, every
\* default pattern stands before every pattern read from the ignore file.
C10_DefaultsBeforeUserPatterns ==
  pc \in {"ready", "called"} =>
    \A i, j \in 1..Len(ignore_list) :
      (IsDefault(ignore_list[i]) /\ ~IsDefault(ignore_list[j])) => i < j

\* The lines of the ignore file as the claim reads them: decoded, trimmed of
\* whitespace and written as the loader writes a pattern (composed, and with
\* slashes for backslashes on Windows).
TrimmedLines ==
  [k \in 1..Len(ignore_file.lines) |->
     Normalize(Strip(DecodePreferred(ignore_file.lines[k])), platform)]

IsPatternLine(line) == line # <<>> /\ line[1] # "#"

\* The trimmed lines that are neither empty nor comments, in file order.
UserPatterns == SelectSeq(TrimmedLines, IsPatternLine)

\* C11: load preserves order and filters only blanks and comments: the list
\* _get_ignore_list returns begins with exactly the trimmed lines of the
\* file that are non-empty and do not start with "#", in file order, none
\* dropped, duplicated or reordered; what follows them are default patterns;
\* no entry of the list is empty or starts with "#".
C11_LoadPreservesUserLines ==
  pc \in {"ready", "called"} =>
    /\ Len(ignore_list) >= Len(UserPatterns)
    /\ SubSeq(ignore_list, 1, Len(UserPatterns)) = UserPatterns
    /\ \A k \in (Len(UserPatterns) + 1)..Len(ignore_list) : IsDefault(ignore_list[k])
    /\ \A k \in 1..Len(ignore_list) : IsPatternLine(ignore_list[k])

\* C12: determinism of the predicate: the boolean a call of _should_ignore
\* returns depends on the path and the pattern list only; the same call made
\* while the file system gives the other answer about the path being a
\* directory returns the same boolean.
C12_ResultIndependentOfFileSystem ==
  (result \in {"True", "False"} /\ file_path \in RepoDirs) =>
    should_ignore(ignore_list, file_path, ~is_dir, platform) = result

FirstIndex(S) == CHOOSE k \in S : \A j \in S : k <= j

\* C13: first match decides: a call of _should_ignore that returns returns
\* True iff at least one pattern of the list matches the path and the first
\* matching pattern in list order is not negated; once a negated pattern has
\* matched, the call returns False whatever later patterns match.
C13_FirstMatchDecides ==
  result \in {"True", "False"} =>
    LET matching == MatchingIndexes
        negatedFirst ==
          /\ matching # {}
          /\ IsNegated(Normalize(ignore_list[FirstIndex(matching)], platform))
    IN  /\ result = "True" <=> (matching # {} /\ ~negatedFirst)
        /\ negatedFirst => result = "False"

\* A negated pattern matches first and a pattern that is not negated matches
\* after it.
C13_Witness ==
  /\ result = "False"
  /\ LET matching == MatchingIndexes
     IN  /\ matching # {}
         /\ IsNegated(Normalize(ignore_list[FirstIndex(matching)], platform))
         /\ \E k \in matching : ~IsNegated(Normalize(ignore_list[k], platform))

====
